---- MODULE Spec2Model ----
(***************************************************************************)
(* Model of the Report component (App/components/pages/Report.tsx): the    *)
(* embed-token state, the embedding effect, the expiration timer effect    *)
(* and the handlers wired to the embedded artifact.                        *)
(*                                                                         *)
(* Every handler runs to its next await as one step (the UI thread is a    *)
(* single event loop); the state updates of one step are committed in one  *)
(* render, after which the effects whose dependencies changed run with     *)
(* the values captured by that render (a closure, `cl` below).             *)
(***************************************************************************)
EXTENDS Integers, Sequences, FiniteSets, TLC

\* ------------------------------------------------------------- bounds
\* inputs the environment gives the component: user and SDK events, backend
\* responses and clock ticks
MaxEvents == 4

\* ---------------------------------------------------------- constants
\* window.setTimeout(..., 1000)
TimerDelay == 1000
\* one clock tick, in milliseconds: a timer period
Step == TimerDelay
\* Math.floor(... / 1000)
MsPerSecond == 1000
\* var secondsBeforeExpirationForAutoRefresh = 2 * 60
secondsBeforeExpirationForAutoRefresh == 2 * 60
\* useState<string>(null) for embedToken: no token
NullToken == 0
\* useState<string>(null) for embedTokenExpiration: no expiration
NullExpiration == -1
\* useState<powerbi.Report | null>(null): no embedded handle
NullHandle == 0

\* lifetimes (ms) of the tokens the backend answers with: under the
\* two-minute threshold and over it
Lifetimes == {119500, 120500, 121500}

\* ------------------------------------------------------ embedding data
PowerBIReport == "PowerBIReport"
PaginatedReport == "PaginatedReport"

\* the workspace's reports and datasets, as the backend lists them; "b1" is
\* the id of a report and of a dataset, "n1" the report a save creates
BaseReports ==
  << [id |-> "r1", reportType |-> PowerBIReport, datasetId |-> "d1", name |-> "Sales"],
     [id |-> "p1", reportType |-> PaginatedReport, datasetId |-> "null", name |-> "Invoice"],
     [id |-> "b1", reportType |-> PowerBIReport, datasetId |-> "d1", name |-> "Both"] >>

NewReport == [id |-> "n1", reportType |-> PowerBIReport, datasetId |-> "d1", name |-> "Copy"]

BaseDatasets ==
  << [id |-> "d1", name |-> "SalesData"],
     [id |-> "b1", name |-> "BothData"] >>

\* the ids the URL can carry: "x1" matches nothing
Ids == {"r1", "p1", "d1", "b1", "x1", "n1"}

\* the context's embeddingData before the workspace artifacts arrived; the
\* user's flags are those the data will carry (nothing reads them before the
\* load: line 432), by default a user who can edit and create
LoadingData ==
  [ver |-> 0, workspaceArtifactsLoading |-> TRUE, tenantName |-> "null",
   reports |-> << >>, datasets |-> << >>,
   userCanEdit |-> TRUE, userCanCreate |-> TRUE]

\* the context's embeddingData after load number ver
LoadedData(ver, withNew) ==
  [ver |-> ver, workspaceArtifactsLoading |-> FALSE, tenantName |-> "Tenant1",
   reports |-> IF withNew THEN Append(BaseReports, NewReport) ELSE BaseReports,
   datasets |-> BaseDatasets,
   userCanEdit |-> TRUE, userCanCreate |-> TRUE]

\* the embeddingData of a reload: the user's flags stay what they were
Reloaded(data, withNew) ==
  [LoadedData(data.ver + 1, withNew) EXCEPT !.userCanEdit = data.userCanEdit,
                                            !.userCanCreate = data.userCanCreate]

VARIABLES
  now,                          \* new Date().getTime()
  isAuthenticated,              \* useIsAuthenticated()
  id,                           \* useParams().id
  embeddingData,                \* useContext(AppContext).embeddingData
  embedToken,
  embedTokenExpiration,
  embedTokenAcquired,
  embedTokenExpirationDisplay,
  embeddedReport,
  embeddedNewReport,
  embedType,
  reportType,
  embedContainer,               \* embedContainer.current is attached
  embedDeps,                    \* dependency array of the embedding effect, last render
  timerDeps,                    \* dependency array of the timer effect, last render
  timers,                       \* pending window.setTimeout callbacks
  tokenRequests,                \* GetEmbedToken requests in flight
  dataRequests,                 \* refreshEmbeddingData calls in flight
  logRequests,                  \* awaited LogActivity calls in flight
  artifact,                     \* what the SDK holds in the container
  activityLog,                  \* LogActivity entries sent
  location,                     \* last navigate(...) target
  created,                      \* the service holds the saved report "n1"
  embeds,                       \* embed / createReport calls made
  events,                       \* inputs of the environment so far
  lastEvent,                    \* the step that led here and what it called
  monitored,                    \* the last monitorTokenExpiration execution
  lastEffect                    \* the last run of the embedding effect

vars ==
  << now, isAuthenticated, id, embeddingData, embedToken, embedTokenExpiration,
     embedTokenAcquired, embedTokenExpirationDisplay, embeddedReport,
     embeddedNewReport, embedType, reportType, embedContainer, embedDeps,
     timerDeps, timers, tokenRequests, dataRequests, logRequests, artifact,
     activityLog, location, created, embeds,
     events, lastEvent, monitored, lastEffect >>

\* the whole state as one record, so that handlers are functions on it
World ==
  [now |-> now, isAuthenticated |-> isAuthenticated, id |-> id,
   embeddingData |-> embeddingData, embedToken |-> embedToken,
   embedTokenExpiration |-> embedTokenExpiration,
   embedTokenAcquired |-> embedTokenAcquired,
   embedTokenExpirationDisplay |-> embedTokenExpirationDisplay,
   embeddedReport |-> embeddedReport, embeddedNewReport |-> embeddedNewReport,
   embedType |-> embedType, reportType |-> reportType,
   embedContainer |-> embedContainer, embedDeps |-> embedDeps,
   timerDeps |-> timerDeps, timers |-> timers, tokenRequests |-> tokenRequests,
   dataRequests |-> dataRequests, logRequests |-> logRequests,
   artifact |-> artifact, activityLog |-> activityLog, location |-> location,
   created |-> created,
   embeds |-> embeds, events |-> events,
   lastEvent |-> lastEvent, monitored |-> monitored, lastEffect |-> lastEffect]

Apply(w) ==
  /\ now' = w.now
  /\ isAuthenticated' = w.isAuthenticated
  /\ id' = w.id
  /\ embeddingData' = w.embeddingData
  /\ embedToken' = w.embedToken
  /\ embedTokenExpiration' = w.embedTokenExpiration
  /\ embedTokenAcquired' = w.embedTokenAcquired
  /\ embedTokenExpirationDisplay' = w.embedTokenExpirationDisplay
  /\ embeddedReport' = w.embeddedReport
  /\ embeddedNewReport' = w.embeddedNewReport
  /\ embedType' = w.embedType
  /\ reportType' = w.reportType
  /\ embedContainer' = w.embedContainer
  /\ embedDeps' = w.embedDeps
  /\ timerDeps' = w.timerDeps
  /\ timers' = w.timers
  /\ tokenRequests' = w.tokenRequests
  /\ dataRequests' = w.dataRequests
  /\ logRequests' = w.logRequests
  /\ artifact' = w.artifact
  /\ activityLog' = w.activityLog
  /\ location' = w.location
  /\ created' = w.created
  /\ embeds' = w.embeds
  /\ events' = w.events
  /\ lastEvent' = w.lastEvent
  /\ monitored' = w.monitored
  /\ lastEffect' = w.lastEffect

\* the values a render's functions close over
Snapshot(w) ==
  [tok |-> w.embedToken, exp |-> w.embedTokenExpiration,
   disp |-> w.embedTokenExpirationDisplay,
   rep |-> w.embeddedReport, newrep |-> w.embeddedNewReport]

\* the variables the "rendered" and "pageChanged" handlers of one
\* embedExistingReport call close over (lines 119-120), the executions of the
\* "rendered" handler that wait at an await (the call each waits for), and,
\* as history, whether a "pageChanged" event arrived after the initial load
\* completed and since the last "rendered" event, and how many "rendered"
\* events arrived after such a "pageChanged"
NewHandlers ==
  [initialLoadComplete |-> FALSE, pageChangeInProgress |-> FALSE,
   rendering |-> << >>, pageChangedSinceRendered |-> FALSE, afterPageChanged |-> 0]

\* nothing embedded in the container
NoArtifact ==
  [handle |-> NullHandle, kind |-> "none", subject |-> "null",
   accessToken |-> NullToken, saved |-> "none", error |-> FALSE,
   permissions |-> "none", handlers |-> NewHandlers,
   cl |-> [tok |-> NullToken, exp |-> NullExpiration, disp |-> "",
           rep |-> NullHandle, newrep |-> NullHandle]]

\* ------------------------------------------------------ token handling
\* String(n).padStart(2, "0")
PadStart2(n) == IF n >= 0 /\ n < 10 THEN "0" \o ToString(n) ELSE ToString(n)

\* new Date(EmbedTokenExpiration).getTime(): new Date(null) is the epoch
DateTime(e) == IF e = NullExpiration THEN 0 ELSE e

\* Math.floor((new Date(E).getTime() - new Date().getTime()) / 1000)
SecondsToExpire(e, t) == (DateTime(e) - t) \div MsPerSecond

\* "Token Expiration: mm:ss"
TimeToExpire(secondsToExpire) ==
  "Token Expiration: " \o PadStart2(secondsToExpire \div 60) \o ":"
                       \o PadStart2(secondsToExpire % 60)

\* AppOwnsDataWebApi.GetEmbedToken() called by refreshEmbedToken: the request
\* leaves at once, the rest of refreshEmbedToken runs on the response; `then`
\* is what the caller awaits it for
refreshEmbedToken(w, cl, then, subject, origin) ==
  [w EXCEPT
     !.lastEvent.requests = Append(@, origin),
     !.tokenRequests = Append(w.tokenRequests,
        [kind |-> "refresh", cl |-> cl,
         then |-> then, subject |-> subject, origin |-> origin])]

\* AppOwnsDataWebApi.GetEmbedToken() called by getEmbedToken
getEmbedToken(w, cl) ==
  [w EXCEPT
     !.lastEvent.requests = Append(@, "mount"),
     !.tokenRequests = Append(w.tokenRequests,
        [kind |-> "get", cl |-> cl,
         then |-> "none", subject |-> "null", origin |-> "mount"])]

\* faulty variant: the threshold compared with <= instead of <
monitorTokenExpiration_Inclusive(w, cl, EmbedTokenExpiration) ==
  LET secondsToExpire == SecondsToExpire(EmbedTokenExpiration, w.now)
      timeToExpire == TimeToExpire(secondsToExpire)
      m == [w EXCEPT !.monitored =
              [exp |-> EmbedTokenExpiration, at |-> w.now]]
  IN IF secondsToExpire <= secondsBeforeExpirationForAutoRefresh
     THEN refreshEmbedToken(m, cl, "none", "null", "monitor")
     ELSE [m EXCEPT !.embedTokenExpirationDisplay =
              IF timeToExpire = cl.disp THEN timeToExpire \o " " ELSE timeToExpire]

monitorTokenExpiration(w, cl, EmbedTokenExpiration) ==
  LET secondsToExpire == SecondsToExpire(EmbedTokenExpiration, w.now)
      timeToExpire == TimeToExpire(secondsToExpire)
      m == [w EXCEPT !.monitored =
              [exp |-> EmbedTokenExpiration, at |-> w.now]]
  IN IF secondsToExpire < secondsBeforeExpirationForAutoRefresh
     THEN refreshEmbedToken(m, cl, "none", "null", "monitor")
     ELSE [m EXCEPT !.embedTokenExpirationDisplay =
              IF timeToExpire = cl.disp THEN timeToExpire \o " " ELSE timeToExpire]

\* embedded.setAccessToken(token) on handle h: it reaches the artifact in the
\* container only if h is that artifact
setAccessToken(w, h, token) ==
  IF h # NullHandle /\ w.artifact.handle = h
  THEN [w EXCEPT !.artifact.accessToken = token]
  ELSE w

\* getEmbedToken after its await: the response [embedToken, embedTokenExpiration]
getEmbedTokenResponse(w, req, tokenResult) ==
  LET a == [w EXCEPT !.embedToken = tokenResult.embedToken,
                     !.embedTokenExpiration = tokenResult.embedTokenExpiration,
                     !.embedTokenAcquired = TRUE]
  IN monitorTokenExpiration(a, req.cl, tokenResult.embedTokenExpiration)

\* faulty variant: the expiration of the response is not stored
refreshEmbedTokenResponse_TokenOnly(w, req, tokenResult) ==
  LET a == [w EXCEPT !.embedToken = tokenResult.embedToken,
                     !.embedTokenExpirationDisplay = "refreshing embed token"]
      b == monitorTokenExpiration(a, req.cl, tokenResult.embedTokenExpiration)
      c == setAccessToken(b, req.cl.rep, tokenResult.embedToken)
  IN setAccessToken(c, req.cl.newrep, tokenResult.embedToken)

\* refreshEmbedToken after its await
refreshEmbedTokenResponse(w, req, tokenResult) ==
  LET a == [w EXCEPT !.embedToken = tokenResult.embedToken,
                     !.embedTokenExpiration = tokenResult.embedTokenExpiration,
                     !.embedTokenExpirationDisplay = "refreshing embed token"]
      b == monitorTokenExpiration(a, req.cl, tokenResult.embedTokenExpiration)
      c == setAccessToken(b, req.cl.rep, tokenResult.embedToken)
  IN setAccessToken(c, req.cl.newrep, tokenResult.embedToken)

\* ----------------------------------------------------------- embedding
\* array.find(x => x.id === id): the index of the first match, 0 for none
FindById(array, key) ==
  LET hits == {i \in DOMAIN array : array[i].id = key}
  IN IF hits = {} THEN 0 ELSE CHOOSE i \in hits : \A j \in hits : i <= j

\* AppOwnsDataWebApi.LogActivity(logEntry) with the correlation id the
\* "rendered" handler read from the embedded report
LogReportActivity(w, correlationId, activity, reportId, reportName) ==
  [w EXCEPT !.activityLog = Append(w.activityLog,
     [CorrelationId |-> correlationId, Activity |-> activity,
      ReportId |-> reportId, Report |-> reportName])]

\* AppOwnsDataWebApi.LogActivity(logEntry) of the callers that have no
\* correlation id
LogActivity(w, activity, reportId, reportName) ==
  LogReportActivity(w, "", activity, reportId, reportName)

\* lines 83-95: the permissions of the embed configuration; the variable
\* stays undefined when no branch is taken
Permissions(data) ==
  IF data.userCanEdit /\ data.userCanCreate THEN "All"
  ELSE IF ~data.userCanCreate THEN "ReadWrite"
  ELSE IF ~data.userCanEdit /\ data.userCanCreate THEN "Copy"
  ELSE IF ~data.userCanEdit /\ ~data.userCanCreate THEN "Read"
  ELSE "undefined"

\* window.powerbi.embed(embedContainer.current, config) for a Power BI report,
\* with the handlers of lines 131-189 wired to the returned handle
embedExistingReport(w, cl, Report) ==
  LET h == w.embeds + 1
  IN [w EXCEPT
        !.embedType = "ExistingReport",
        !.reportType = "PowerBiReport",
        !.embeds = h,
        !.lastEvent.embedded = Append(@, [fn |-> "embed", accessToken |-> cl.tok]),
        !.artifact = [handle |-> h, kind |-> "report", subject |-> Report.id,
                      accessToken |-> cl.tok, saved |-> "existing",
                      error |-> TRUE,
                      permissions |-> Permissions(w.embeddingData),
                      handlers |-> NewHandlers, cl |-> cl],
        !.embeddedReport = h,
        !.embeddedNewReport = NullHandle]

\* window.powerbi.embed for a paginated report; the error handler is wired
\* after the awaited ViewReport log
embedPaginatedReport(w, cl, Report) ==
  LET h == w.embeds + 1
      a == [w EXCEPT
              !.embedType = "ExistingReport",
              !.reportType = "PaginatedReport",
              !.embeds = h,
              !.lastEvent.embedded = Append(@, [fn |-> "embed", accessToken |-> cl.tok]),
              !.artifact = [handle |-> h, kind |-> "paginated", subject |-> Report.id,
                            accessToken |-> cl.tok, saved |-> "none",
                            error |-> FALSE, permissions |-> "none",
                            handlers |-> NewHandlers, cl |-> cl],
              !.embeddedReport = h,
              !.embeddedNewReport = NullHandle,
              !.logRequests = w.logRequests \cup {h}]
  IN LogActivity(a, "ViewReport", Report.id, Report.name)

\* faulty variant: the existing-report handle is not cleared (line 269 left out)
embedNewReport_KeepsReport(w, cl, Dataset) ==
  LET h == w.embeds + 1
      wired == cl.rep # NullHandle
  IN [w EXCEPT
        !.embedType = "NewReport",
        !.reportType = "PowerBiReport",
        !.embeds = h,
        !.lastEvent.embedded = Append(@, [fn |-> "createReport", accessToken |-> cl.tok]),
        !.artifact = [handle |-> h, kind |-> "create", subject |-> Dataset.id,
                      accessToken |-> cl.tok,
                      saved |-> IF wired THEN "new" ELSE "none",
                      error |-> wired, permissions |-> "none",
                      handlers |-> NewHandlers, cl |-> cl],
        !.embeddedNewReport = h]

\* window.powerbi.createReport; line 271 calls off("saved") on the render's
\* embeddedReport state, which throws when that is null, and then neither
\* handler of lines 272-285 is wired
embedNewReport(w, cl, Dataset) ==
  LET h == w.embeds + 1
      wired == cl.rep # NullHandle
  IN [w EXCEPT
        !.embedType = "NewReport",
        !.reportType = "PowerBiReport",
        !.embeds = h,
        !.lastEvent.embedded = Append(@, [fn |-> "createReport", accessToken |-> cl.tok]),
        !.artifact = [handle |-> h, kind |-> "create", subject |-> Dataset.id,
                      accessToken |-> cl.tok,
                      saved |-> IF wired THEN "new" ELSE "none",
                      error |-> wired, permissions |-> "none",
                      handlers |-> NewHandlers, cl |-> cl],
        !.embeddedNewReport = h,
        !.embeddedReport = NullHandle]

\* line 432: the condition the embedding effect acts under
EffectGuard(w) ==
  /\ w.isAuthenticated
  /\ w.embedContainer
  /\ w.embeddingData.tenantName # "null"

\* faulty variant: the effect embeds without asking whether a token was acquired
EffectCall_NoTokenCheck(w) ==
  LET reports == w.embeddingData.reports
      r == FindById(reports, w.id)
      d == FindById(w.embeddingData.datasets, w.id)
  IN IF ~EffectGuard(w) THEN "none"
     ELSE IF r # 0
       THEN IF reports[r].reportType = PowerBIReport
            THEN "embedExistingReport" ELSE "embedPaginatedReport"
     ELSE IF d # 0 THEN "embedNewReport"
     ELSE "none"

\* faulty variant: the datasets are searched before the reports
EffectCall_DatasetFirst(w) ==
  LET reports == w.embeddingData.reports
      r == FindById(reports, w.id)
      d == FindById(w.embeddingData.datasets, w.id)
  IN IF ~EffectGuard(w) THEN "none"
     ELSE IF ~w.embedTokenAcquired THEN "getEmbedToken"
     ELSE IF d # 0 THEN "embedNewReport"
     ELSE IF r # 0
       THEN IF reports[r].reportType = PowerBIReport
            THEN "embedExistingReport" ELSE "embedPaginatedReport"
     ELSE "none"

\* lines 432-456: the function the embedding effect calls
EffectCall(w) ==
  LET reports == w.embeddingData.reports
      r == FindById(reports, w.id)
      d == FindById(w.embeddingData.datasets, w.id)
  IN IF ~EffectGuard(w) THEN "none"
     ELSE IF ~w.embedTokenAcquired THEN "getEmbedToken"
     ELSE IF r # 0
       THEN IF reports[r].reportType = PowerBIReport
            THEN "embedExistingReport" ELSE "embedPaginatedReport"
     ELSE IF d # 0 THEN "embedNewReport"
     ELSE "none"

\* the effect of lines 430-459, run with the render's values; lastEffect
\* records the run: what it saw, the function it called and the number of
\* SDK embed calls that made
EmbedEffect(w, cl) ==
  LET reports == w.embeddingData.reports
      datasets == w.embeddingData.datasets
      r == FindById(reports, w.id)
      d == FindById(datasets, w.id)
      call == EffectCall(w)
      after == CASE call = "getEmbedToken" -> getEmbedToken(w, cl)
                 [] call = "embedExistingReport" -> embedExistingReport(w, cl, reports[r])
                 [] call = "embedPaginatedReport" -> embedPaginatedReport(w, cl, reports[r])
                 [] call = "embedNewReport" -> embedNewReport(w, cl, datasets[d])
                 [] OTHER -> w
  IN [after EXCEPT !.lastEffect =
        [id |-> w.id, guard |-> EffectGuard(w), acquired |-> w.embedTokenAcquired,
         reports |-> reports, datasets |-> datasets, call |-> call,
         made |-> Len(after.lastEvent.embedded) - Len(w.lastEvent.embedded)]]

\* the effect of lines 462-468
TimerEffect(w, cl) ==
  IF w.isAuthenticated /\ w.embedTokenAcquired
  THEN [w EXCEPT !.timers = Append(w.timers, [at |-> w.now + TimerDelay, cl |-> cl]),
                 !.lastEvent.timers = @ + 1]
  ELSE w

\* dependency arrays, evaluated while rendering: embedContainer.current is the
\* ref as the previous commit left it
EmbedDeps(w) ==
  << w.isAuthenticated, w.embeddingData.ver, w.embedTokenAcquired, w.embedContainer, w.id >>

\* faulty variant: the display left out of the dependency array
TimerDeps_NoDisplay(w) ==
  << w.isAuthenticated, w.embedTokenAcquired, w.embedTokenExpiration >>

TimerDeps(w) ==
  << w.isAuthenticated, w.embedTokenAcquired, w.embedTokenExpiration,
     w.embedTokenExpirationDisplay >>

\* what a change of makes the component render again
ReactState(w) ==
  << w.isAuthenticated, w.id, w.embeddingData.ver, w.embedToken,
     w.embedTokenExpiration, w.embedTokenAcquired, w.embedTokenExpirationDisplay,
     w.embeddedReport, w.embeddedNewReport, w.embedType, w.reportType >>

\* lines 470-499: the Box holding the container is rendered only for an
\* authenticated user once the workspace artifacts are loaded
BoxRendered(w) == w.isAuthenticated /\ ~w.embeddingData.workspaceArtifactsLoading

\* one render and commit, then the effects whose dependencies changed
RenderOnce(w) ==
  LET cl == Snapshot(w)
      committed ==
        [w EXCEPT !.embedContainer = BoxRendered(w),
                  !.embedDeps = EmbedDeps(w),
                  !.timerDeps = TimerDeps(w),
                  !.artifact = IF BoxRendered(w) /\ w.embedContainer
                               THEN w.artifact ELSE NoArtifact]
      afterEmbed == IF EmbedDeps(w) # w.embedDeps
                    THEN EmbedEffect(committed, cl) ELSE committed
  IN IF TimerDeps(w) # w.timerDeps THEN TimerEffect(afterEmbed, cl) ELSE afterEmbed

\* render w, the state a handler left, until the effects change no more state
RECURSIVE Render(_, _)
Render(before, w) ==
  IF ReactState(w) = ReactState(before) THEN w ELSE Render(w, RenderOnce(w))

\* ------------------------------------------------------------- actions
RemoveAt(seq, i) == SubSeq(seq, 1, i - 1) \o SubSeq(seq, i + 1, Len(seq))

Bounded(w) == w.events <= MaxEvents

\* the record of a step: its name, for a token response the caller whose
\* request was answered, the GetEmbedToken requests the step sent (by origin),
\* the SDK embed calls it made, the timers it set, its console.log calls
EventOf(name, of) ==
  [name |-> name, of |-> of, requests |-> << >>, embedded |-> << >>,
   timers |-> 0, console |-> 0]

Event(name) == EventOf(name, "")

\* the backend mints a token; the token is identified by the expiry it carries
Mint(issuedAt, life) ==
  [embedToken |-> issuedAt + life, embedTokenExpiration |-> issuedAt + life]

\* a step ends with the render its state updates cause
Commit(w) ==
  LET r == Render(World, w)
  IN Bounded(r) /\ Apply(r)

\* navigate(url): the router's id changes
navigate(w, newId, url) == [w EXCEPT !.id = newId, !.location = url]

\* refreshEmbeddingData() of the AppContext: the call leaves at once
refreshEmbeddingData(w, then, subject) ==
  [w EXCEPT !.dataRequests = Append(w.dataRequests, [then |-> then, subject |-> subject])]

\* lines 174-177 after `await refreshEmbeddingData()`
SavedAsAfterData(w, dreq) ==
  navigate(LogActivity(w, "CopyReport", NewReport.id, NewReport.name),
           NewReport.id, "/reports/" \o NewReport.id \o "/?edit=true")

\* faulty variant: refreshEmbeddingData() called without await
SavedAsAfterToken_NoAwait(w, req) ==
  SavedAsAfterData(refreshEmbeddingData(w, "none", req.subject), req)

\* lines 172-173 after `await refreshEmbedToken()`
SavedAsAfterToken(w, req) == refreshEmbeddingData(w, "copy", req.subject)

\* lines 274-279 after `await refreshEmbedToken()`
NewSavedAfterToken(w, req) ==
  navigate(LogActivity(refreshEmbeddingData(w, "none", req.subject),
                       "CreateReport", NewReport.id, NewReport.name),
           NewReport.id, "/reports/" \o NewReport.id \o "/?edit=true&newReport=true")

\* the backend answers a GetEmbedToken request
TokenResponse ==
  \E i \in DOMAIN tokenRequests, life \in Lifetimes :
    LET req == tokenRequests[i]
        tokenResult == Mint(now, life)
        w0 == [World EXCEPT !.tokenRequests = RemoveAt(tokenRequests, i),
                            !.events = events + 1,
                            !.lastEvent = EventOf("TokenResponse", req.origin)]
        w1 == IF req.kind = "get"
              THEN getEmbedTokenResponse(w0, req, tokenResult)
              ELSE refreshEmbedTokenResponse(w0, req, tokenResult)
        w2 == CASE req.then = "copy" -> SavedAsAfterToken(w1, req)
                [] req.then = "create" -> NewSavedAfterToken(w1, req)
                [] OTHER -> w1
    IN Commit(w2)

\* the AppContext delivers the workspace artifacts for the first time
WorkspaceArtifactsLoaded ==
  /\ embeddingData.workspaceArtifactsLoading
  /\ Commit([World EXCEPT !.embeddingData = Reloaded(embeddingData, created),
                          !.events = events + 1,
                          !.lastEvent = Event("WorkspaceArtifactsLoaded")])

\* a refreshEmbeddingData call completes with a new embeddingData object
DataResponse ==
  \E i \in DOMAIN dataRequests :
    LET dreq == dataRequests[i]
        w0 == [World EXCEPT !.dataRequests = RemoveAt(dataRequests, i),
                            !.embeddingData = Reloaded(embeddingData, created),
                            !.events = events + 1,
                            !.lastEvent = Event("DataResponse")]
    IN Commit(IF dreq.then = "copy" THEN SavedAsAfterData(w0, dreq) ELSE w0)

\* the awaited LogActivity of embedPaginatedReport completes: lines 230-233
LogResponse ==
  \E h \in logRequests :
    Commit([World EXCEPT !.logRequests = logRequests \ {h},
                         !.artifact.error = IF artifact.handle = h THEN TRUE ELSE @,
                         !.events = events + 1,
                         !.lastEvent = Event("LogResponse")])

\* a pending timer's callback runs: line 465
TimerFire ==
  \E i \in DOMAIN timers :
    /\ timers[i].at <= now
    /\ LET t == timers[i]
           w0 == [World EXCEPT !.timers = RemoveAt(timers, i), !.lastEvent = Event("TimerFire")]
       IN Commit(monitorTokenExpiration(w0, t.cl, t.cl.exp))

\* the user clicks the refresh control of ReportPath: line 482
ManualRefresh ==
  /\ BoxRendered(World)
  /\ Commit(refreshEmbedToken(
       [World EXCEPT !.events = events + 1, !.lastEvent = Event("ManualRefresh")],
       Snapshot(World), "none", "null", "manual"))

\* the "saved" handler of the existing report: lines 168-184
ExistingSaved(w, saveAs) ==
  IF saveAs
  THEN refreshEmbedToken(w, w.artifact.cl, "copy", w.artifact.subject, "saved")
  ELSE LET i == FindById(w.embeddingData.reports, w.artifact.subject)
       IN LogActivity(w, "EditReport", w.artifact.subject,
                      IF i = 0 THEN "null" ELSE w.embeddingData.reports[i].name)

\* the "saved" handler of the new report: lines 272-280
NewSaved(w) == refreshEmbedToken(w, w.artifact.cl, "create", w.artifact.subject, "saved")

\* the embedded artifact raises "saved"
SavedEvent ==
  \E saveAs \in BOOLEAN :
    /\ artifact.kind \in {"report", "create"}
    /\ artifact.kind = "create" => saveAs
    /\ saveAs => ~created
    /\ LET w0 == [World EXCEPT !.events = events + 1,
                               !.created = created \/ saveAs,
                               !.lastEvent = Event(IF saveAs THEN "SavedAs" ELSE "Saved")]
       IN Commit(CASE artifact.saved = "existing" -> ExistingSaved(w0, saveAs)
                   [] artifact.saved = "new" -> NewSaved(w0)
                   [] OTHER -> w0)

\* faulty variant: the handler retries with a token refresh
ErrorHandler_Retry(w) ==
  refreshEmbedToken([w EXCEPT !.lastEvent.console = @ + 1],
                    w.artifact.cl, "none", "null", "error")

\* the "error" handlers: lines 187-189, 231-233, 283-285
ErrorHandler(w) == [w EXCEPT !.lastEvent.console = @ + 1]

\* the embedded artifact raises "error"
ErrorEvent ==
  /\ artifact.kind # "none"
  /\ LET w0 == [World EXCEPT !.events = events + 1, !.lastEvent = Event("ErrorEvent")]
     IN Commit(IF artifact.error THEN ErrorHandler(w0) ELSE w0)

\* the user signs in or out
AuthChange ==
  /\ events < MaxEvents
  /\ Commit([World EXCEPT !.isAuthenticated = ~isAuthenticated,
                          !.events = events + 1,
                          !.lastEvent = Event(IF isAuthenticated THEN "Logout" ELSE "Login")])

\* the user opens another report or dataset URL
UserNavigate ==
  \E newId \in Ids \ {id} :
    /\ newId = NewReport.id => created
    /\ Commit(navigate([World EXCEPT !.events = events + 1, !.lastEvent = Event("UserNavigate")],
                       newId, "/reports/" \o newId))

\* the clock advances
Tick ==
  /\ events < MaxEvents
  /\ Apply([World EXCEPT !.now = now + Step, !.events = events + 1,
                         !.lastEvent = Event("Tick")])

\* embeddedReport.getCorrelationId(): the id of the embed session
CorrelationId(a) == ToString(a.handle)

\* the name of the report the handlers of the embedded report close over
ReportName(w) ==
  LET i == FindById(w.embeddingData.reports, w.artifact.subject)
  IN IF i = 0 THEN "null" ELSE w.embeddingData.reports[i].name

\* lines 146-153 up to the first await: the page-change branch of the
\* "rendered" handler, entered by the execution at position i of rendering
\* (0: a new execution); an execution that has nothing to wait for ends
AfterInitialLoad(w, i) ==
  LET h == w.artifact.handlers
      rest == IF i = 0 THEN h.rendering ELSE RemoveAt(h.rendering, i)
  IN IF h.pageChangeInProgress
     THEN [w EXCEPT !.artifact.handlers.pageChangeInProgress = FALSE,
                    !.artifact.handlers.rendering = Append(rest, "getCorrelationId:page")]
     ELSE [w EXCEPT !.artifact.handlers.rendering = rest]

\* the "rendered" handler up to its first await: lines 137-141, 146-150
RenderedHandler(w) ==
  IF ~w.artifact.handlers.initialLoadComplete
  THEN [w EXCEPT !.artifact.handlers.rendering = Append(@, "getCorrelationId:view")]
  ELSE AfterInitialLoad(w, 0)

\* the "rendered" handler resumes after the await its execution i waits at:
\* lines 141-144 and 150-152
RenderedContinue(w, i) ==
  LET pc == w.artifact.handlers.rendering[i]
      to(next) == [w EXCEPT !.artifact.handlers.rendering[i] = next]
  IN CASE pc = "getCorrelationId:view" -> to("getActivePage:view")
       [] pc = "getActivePage:view" ->
            LogReportActivity(to("LogActivity:view"), CorrelationId(w.artifact),
                              "ViewReport", w.artifact.subject, ReportName(w))
       [] pc = "LogActivity:view" ->
            AfterInitialLoad([w EXCEPT !.artifact.handlers.initialLoadComplete = TRUE], i)
       [] pc = "getCorrelationId:page" -> to("getActivePage:page")
       [] pc = "getActivePage:page" ->
            LogReportActivity(to("LogActivity:page"), CorrelationId(w.artifact),
                              "PageChanged", w.artifact.subject, ReportName(w))
       [] OTHER -> [w EXCEPT !.artifact.handlers.rendering = RemoveAt(@, i)]

\* the "pageChanged" handler: lines 157-165
PageChangedHandler(w) ==
  IF w.artifact.handlers.initialLoadComplete
  THEN [w EXCEPT !.artifact.handlers.pageChangeInProgress = TRUE,
                 !.artifact.handlers.pageChangedSinceRendered = TRUE]
  ELSE w

\* the embedded Power BI report raises "rendered"
Rendered ==
  /\ artifact.kind = "report"
  /\ LET h == artifact.handlers
         w0 == [World EXCEPT
                  !.events = events + 1,
                  !.lastEvent = Event("Rendered"),
                  !.artifact.handlers.afterPageChanged =
                     IF h.pageChangedSinceRendered THEN @ + 1 ELSE @,
                  !.artifact.handlers.pageChangedSinceRendered = FALSE]
     IN Commit(RenderedHandler(w0))

\* the embedded Power BI report raises "pageChanged"
PageChanged ==
  /\ artifact.kind = "report"
  /\ Commit(PageChangedHandler(
       [World EXCEPT !.events = events + 1, !.lastEvent = Event("PageChanged")]))

\* a call that an execution of the "rendered" handler awaits completes
RenderedResume ==
  \E i \in DOMAIN artifact.handlers.rendering :
    Commit(RenderedContinue([World EXCEPT !.lastEvent = Event("RenderedResume")], i))

\* the component before its first render
Unmounted(auth, loaded, firstId) ==
  [now |-> 0, isAuthenticated |-> auth, id |-> firstId,
   embeddingData |-> IF loaded THEN LoadedData(1, FALSE) ELSE LoadingData,
   embedToken |-> NullToken, embedTokenExpiration |-> NullExpiration,
   embedTokenAcquired |-> FALSE, embedTokenExpirationDisplay |-> "",
   embeddedReport |-> NullHandle, embeddedNewReport |-> NullHandle,
   embedType |-> "null", reportType |-> "null",
   embedContainer |-> FALSE, embedDeps |-> << >>, timerDeps |-> << >>,
   timers |-> << >>, tokenRequests |-> << >>, dataRequests |-> << >>,
   logRequests |-> {}, artifact |-> NoArtifact, activityLog |-> << >>,
   location |-> "/reports/" \o firstId, created |-> FALSE,
   embeds |-> 0, events |-> 0,
   lastEvent |-> Event("Mount"),
   monitored |-> [exp |-> NullExpiration, at |-> 0],
   lastEffect |-> [id |-> "null", guard |-> FALSE, acquired |-> FALSE,
                   reports |-> << >>, datasets |-> << >>, call |-> "none",
                   made |-> 0]]

\* the variables hold the state w
InState(w) ==
  /\ now = w.now
  /\ isAuthenticated = w.isAuthenticated
  /\ id = w.id
  /\ embeddingData = w.embeddingData
  /\ embedToken = w.embedToken
  /\ embedTokenExpiration = w.embedTokenExpiration
  /\ embedTokenAcquired = w.embedTokenAcquired
  /\ embedTokenExpirationDisplay = w.embedTokenExpirationDisplay
  /\ embeddedReport = w.embeddedReport
  /\ embeddedNewReport = w.embeddedNewReport
  /\ embedType = w.embedType
  /\ reportType = w.reportType
  /\ embedContainer = w.embedContainer
  /\ embedDeps = w.embedDeps
  /\ timerDeps = w.timerDeps
  /\ timers = w.timers
  /\ tokenRequests = w.tokenRequests
  /\ dataRequests = w.dataRequests
  /\ logRequests = w.logRequests
  /\ artifact = w.artifact
  /\ activityLog = w.activityLog
  /\ location = w.location
  /\ created = w.created
  /\ embeds = w.embeds
  /\ events = w.events
  /\ lastEvent = w.lastEvent
  /\ monitored = w.monitored
  /\ lastEffect = w.lastEffect

\* the state after the first render and its effects
Mounted(auth, loaded, firstId) ==
  InState(RenderOnce(Unmounted(auth, loaded, firstId)))

Init ==
  \E auth \in BOOLEAN, loaded \in BOOLEAN, firstId \in Ids \ {NewReport.id} :
    Mounted(auth, loaded, firstId)

\* the page opened on a Power BI report by a signed-in user
InitSignedIn == \E loaded \in BOOLEAN : Mounted(TRUE, loaded, "r1")

Next ==
  \/ TokenResponse
  \/ WorkspaceArtifactsLoaded
  \/ DataResponse
  \/ LogResponse
  \/ TimerFire
  \/ ManualRefresh
  \/ SavedEvent
  \/ ErrorEvent
  \/ AuthChange
  \/ UserNavigate
  \/ Tick

Spec == Init /\ [][Next]_vars

\* the page opened on a Power BI report by a signed-in user with any
\* combination of the two user flags
InitAnyUser ==
  \E loaded \in BOOLEAN, edit \in BOOLEAN, create \in BOOLEAN :
    InState(RenderOnce(
      [Unmounted(TRUE, loaded, "r1") EXCEPT !.embeddingData.userCanEdit = edit,
                                            !.embeddingData.userCanCreate = create]))

\* every step of Next and the "rendered" and "pageChanged" events of an
\* embedded Power BI report
NextWithReportEvents ==
  \/ Next
  \/ Rendered
  \/ PageChanged
  \/ RenderedResume

ReportEventsSpec == InitAnyUser /\ [][NextWithReportEvents]_vars

\* a timer callback is due: the guard of TimerFire
TimerDue == \E i \in DOMAIN timers : timers[i].at <= now

\* a GetEmbedToken request is in flight and can be answered: the guard of
\* TokenResponse
Answerable == tokenRequests # << >> /\ events < MaxEvents

\* the event loop runs a due timer callback and the backend answers every
\* GetEmbedToken request: weak fairness of TimerFire and of TokenResponse, with
\* each action's enabling condition written as its guard
FairSpec ==
  /\ InitSignedIn /\ [][Next]_vars
  /\ (<>[]TimerDue => []<><<TimerFire>>_vars)
  /\ (<>[]Answerable => []<><<TokenResponse>>_vars)

\* ------------------------------------------------------------- claims
\* the number of GetEmbedToken requests of a step that started at `origin`
Sent(ev, origin) == Cardinality({i \in DOMAIN ev.requests : ev.requests[i] = origin})

\* two decimal digits
TwoDigits(n) == ToString(n \div 10) \o ToString(n % 10)

\* the countdown text for `ms` milliseconds of remaining lifetime
Countdown(ms) ==
  "Token Expiration: " \o TwoDigits(ms \div 60000) \o ":" \o TwoDigits((ms % 60000) \div 1000)

\* C1: every execution of the expiration check on a value E either starts one
\* token refresh and leaves the countdown alone (fewer than 120 whole seconds
\* remain until E) or sends no request and sets the countdown display (120 or
\* more remain). A timer callback and a token response each run the check once.
C1_ExpirationCheck ==
  [][lastEvent'.name \in {"TimerFire", "TokenResponse"} =>
       LET remaining == monitored'.exp - monitored'.at
       IN /\ monitored'.at = now
          /\ IF remaining < 120000
             THEN /\ Sent(lastEvent', "monitor") = 1
                  /\ embedTokenExpirationDisplay' \in
                       {embedTokenExpirationDisplay, "refreshing embed token"}
             ELSE /\ Sent(lastEvent', "monitor") = 0
                  /\ embedTokenExpirationDisplay' \in
                       {Countdown(remaining), Countdown(remaining) \o " "}]_vars

\* C1 witness: a timer callback started a refresh while the display still
\* shows the countdown an earlier execution of the check had set
C1_Witness ==
  /\ lastEvent.name = "TimerFire"
  /\ lastEvent.requests = << "monitor" >>
  /\ embedTokenExpirationDisplay = "Token Expiration: 02:00"

\* a timer is pending, or a refresh the check started is in flight
CheckPending ==
  \/ timers # << >>
  \/ \E i \in DOMAIN tokenRequests : tokenRequests[i].origin = "monitor"

C3_TokenBeforeEmbed ==
  \A i \in DOMAIN lastEvent.embedded :
    /\ embedTokenAcquired
    /\ embedToken # NullToken
    /\ embedTokenExpiration # NullExpiration
    /\ lastEvent.embedded[i].accessToken = embedToken

\* C3 witness: a step made an SDK embed call
C3_Witness == lastEvent.embedded # << >> /\ artifact.accessToken # NullToken

\* what the URL id matches in the data an effect run saw
MatchesReportOfType(e, type) ==
  \E i \in DOMAIN e.reports : e.reports[i].id = e.id /\ e.reports[i].reportType = type

MatchesReport(e) == \E i \in DOMAIN e.reports : e.reports[i].id = e.id

MatchesDataset(e) == \E i \in DOMAIN e.datasets : e.datasets[i].id = e.id

\* the embedding mode the URL id selects
ModeOf(e) ==
  IF MatchesReportOfType(e, PowerBIReport) THEN "embedExistingReport"
  ELSE IF MatchesReport(e) THEN "embedPaginatedReport"
  ELSE IF MatchesDataset(e) THEN "embedNewReport"
  ELSE "none"

\* C4 as claimed: with a token acquired, each run of the embedding effect calls
\* the one embedding function the URL id selects (a report match before a
\* dataset match), and none when the id matches nothing
C4_ModeByIdOnly ==
  lastEffect.acquired =>
    /\ lastEffect.call = ModeOf(lastEffect)
    /\ lastEffect.made = IF ModeOf(lastEffect) = "none" THEN 0 ELSE 1

\* C4 amended: the same, for the runs that pass the effect's guard of line 432
\* (user authenticated, container mounted, tenant data loaded); a run that
\* fails the guard makes no embedding call
C4_ModeByIdUnderGuard ==
  lastEffect.acquired =>
    IF lastEffect.guard
    THEN /\ lastEffect.call = ModeOf(lastEffect)
         /\ lastEffect.made = IF ModeOf(lastEffect) = "none" THEN 0 ELSE 1
    ELSE lastEffect.call = "none" /\ lastEffect.made = 0

\* C4 witness: an id that is both a report's and a dataset's embedded the report
C4_Witness ==
  /\ lastEffect.acquired
  /\ lastEffect.guard
  /\ MatchesReport(lastEffect) /\ MatchesDataset(lastEffect)
  /\ lastEffect.call = "embedExistingReport"
  /\ artifact.kind = "report"

\* lines 484 and 491: the toolbars the component renders
ShowReportToolbar == embedType = "ExistingReport" /\ reportType = "PowerBiReport"

ShowNewReportToolbar == embedType = "NewReport"

\* C5: once an embedding function has run, the modes exclude each other: the
\* two handles are never both set, embedType is "NewReport" exactly when the
\* new-report handle is set and "ExistingReport" exactly when the report
\* handle is set, and the two toolbars are never shown together
C5_ModesExclusive ==
  embeds > 0 =>
    /\ ~(embeddedReport # NullHandle /\ embeddedNewReport # NullHandle)
    /\ (embedType = "NewReport") <=> (embeddedNewReport # NullHandle)
    /\ (embedType = "ExistingReport") <=> (embeddedReport # NullHandle)
    /\ ~(ShowReportToolbar /\ ShowNewReportToolbar)

\* C5 witness: a new-report canvas embedded after an existing report
C5_Witness ==
  /\ embeds > 1
  /\ embedType = "NewReport"
  /\ artifact.cl.rep # NullHandle

\* C6 as claimed: every embedded new-report canvas has the "saved" handler of
\* lines 272-280 wired, whatever was embedded before
C6_SavedAlwaysWired == artifact.kind = "create" => artifact.saved = "new"

\* the URL the save-as handler navigates to
CopyUrl == "/reports/" \o NewReport.id \o "/?edit=true"

\* a request of the save-as flow is among reqs
InCopyFlow(reqs) == \E i \in DOMAIN reqs : reqs[i].then = "copy"

\* the step appended an entry of this activity to the log
Logged(activity) ==
  /\ Len(activityLog') = Len(activityLog) + 1
  /\ activityLog'[Len(activityLog')].Activity = activity

\* C7: for an embedded Power BI report, a save-as logs CopyReport and navigates
\* to the copy only in the step that completes the embedding-data refresh,
\* which starts only when the token refresh has completed; a plain save logs
\* one EditReport entry and starts no token refresh, no data refresh and no
\* navigation
C7_SaveHandling ==
  [][/\ Logged("CopyReport") =>
          /\ lastEvent'.name = "DataResponse"
          /\ InCopyFlow(dataRequests) /\ ~InCopyFlow(dataRequests')
          /\ ~InCopyFlow(tokenRequests')
          /\ embeddingData'.ver > embeddingData.ver
          /\ location' = CopyUrl /\ id' = NewReport.id
     /\ (location' = CopyUrl /\ location # CopyUrl) => Logged("CopyReport")
     /\ InCopyFlow(dataRequests') => ~InCopyFlow(tokenRequests')
     /\ (lastEvent'.name = "SavedAs" /\ artifact.saved = "existing") =>
          /\ InCopyFlow(tokenRequests') /\ ~InCopyFlow(dataRequests')
          /\ activityLog' = activityLog
          /\ location' = location
     /\ (lastEvent'.name = "Saved" /\ artifact.saved = "existing") =>
          /\ Logged("EditReport")
          /\ activityLog'[Len(activityLog')].ReportId = artifact.subject
          /\ lastEvent'.requests = << >>
          /\ tokenRequests' = tokenRequests
          /\ dataRequests' = dataRequests
          /\ location' = location /\ id' = id]_vars

\* C7 witness: the save-as flow ended: CopyReport is logged and the route is
\* the copy
C7_Witness ==
  /\ activityLog # << >>
  /\ activityLog[Len(activityLog)].Activity = "CopyReport"
  /\ lastEvent.name = "DataResponse"
  /\ location = CopyUrl

\* C8: an "error" event only logs to the console: the step changes no
\* component state, sends no GetEmbedToken or LogActivity call and embeds nothing
C8_ErrorOnlyLogged ==
  [][lastEvent'.name = "ErrorEvent" =>
       /\ UNCHANGED << embedToken, embedTokenExpiration, embedTokenAcquired,
                       embedTokenExpirationDisplay, embedType, reportType,
                       embeddedReport, embeddedNewReport, isAuthenticated, id,
                       embeddingData, location, artifact, embeds, timers,
                       tokenRequests, dataRequests, logRequests, activityLog >>
       /\ lastEvent'.requests = << >>
       /\ lastEvent'.embedded = << >>
       /\ lastEvent'.timers = 0]_vars

\* C8 witness: the error handler of a paginated report ran
C8_Witness ==
  /\ lastEvent.name = "ErrorEvent"
  /\ lastEvent.console = 1
  /\ artifact.kind = "paginated"

\* C9 as claimed: a step that ends with the user not authenticated sends no
\* GetEmbedToken request, makes no embed or createReport call and sets no timer
C9_IdleWhileSignedOut ==
  ~isAuthenticated =>
    /\ lastEvent.requests = << >>
    /\ lastEvent.embedded = << >>
    /\ lastEvent.timers = 0

\* C10 as claimed: when a timer callback starts a GetEmbedToken request, the
\* stored embedTokenExpiration is under 120 seconds away
C10_RefreshOnlyNearExpiry ==
  (lastEvent.name = "TimerFire" /\ Sent(lastEvent, "monitor") > 0) =>
     embedTokenExpiration - now < 120000

\* the activity log entries of one activity that carry one correlation id
Entries(activity, correlationId) ==
  {i \in DOMAIN activityLog :
     /\ activityLog[i].Activity = activity
     /\ activityLog[i].CorrelationId = correlationId}

\* C11 as claimed: each embedding of a Power BI report logs ViewReport at most
\* once, whatever the interleaving of "rendered" events with the awaits of the
\* handler, and has logged it once when the initial load is complete
C11_ViewReportOnce ==
  /\ \A h \in 1..embeds : Cardinality(Entries("ViewReport", ToString(h))) <= 1
  /\ (artifact.kind = "report" /\ artifact.handlers.initialLoadComplete) =>
        Cardinality(Entries("ViewReport", CorrelationId(artifact))) = 1

\* C12 as claimed: the PageChanged entries of an embedded Power BI report are
\* logged by "rendered" events that follow a "pageChanged" event received
\* after the initial load completed, one entry for each such "rendered" event
\* at most: there are never more entries than such events, and none before a
\* "pageChanged" event arrived after the initial load
C12_PageChangedLogging ==
  artifact.kind = "report" =>
    Cardinality(Entries("PageChanged", CorrelationId(artifact)))
      <= artifact.handlers.afterPageChanged

\* C13 as claimed: when the response to a refreshEmbedToken request (started
\* by the timer check, the refresh control or a "saved" handler) stores a new
\* token while an artifact is embedded, that artifact holds the stored token
\* after the step
C13_ArtifactGetsToken ==
  [][(/\ lastEvent'.name = "TokenResponse"
      /\ lastEvent'.of \in {"monitor", "manual", "saved"}
      /\ artifact.kind # "none"
      /\ artifact'.handle = artifact.handle)
       => artifact'.accessToken = embedToken']_vars

\* C14 as claimed: at most one expiration timer is pending and at most one
\* GetEmbedToken request is outstanding
C14_OneTimerOneRequest ==
  /\ Len(timers) <= 1
  /\ Len(tokenRequests) <= 1

\* C15 as claimed: when a refresh the expiration check started is answered
\* with a token that expires at least two minutes ahead, the step sends no
\* further request, stores the token and expiration of the response and shows
\* the remaining time; and from then on a step of the check sends a request
\* only when the stored token has under 120 seconds left
C15_RefreshEndsAfterOneRequest ==
  [][/\ (/\ lastEvent'.name = "TokenResponse"
         /\ lastEvent'.of = "monitor"
         /\ monitored'.exp - now >= 120000)
          => /\ lastEvent'.requests = << >>
             /\ embedTokenExpiration' = monitored'.exp
             /\ embedToken' = monitored'.exp
             /\ embedTokenExpirationDisplay' \in
                  {Countdown(monitored'.exp - now), Countdown(monitored'.exp - now) \o " "}
     /\ (embedTokenAcquired /\ Sent(lastEvent', "monitor") > 0)
          => embedTokenExpiration' - now' < 120000]_vars

\* the permissions the two user flags stand for
PermissionsFor(userCanEdit, userCanCreate) ==
  IF userCanEdit /\ userCanCreate THEN "All"
  ELSE IF userCanEdit THEN "ReadWrite"
  ELSE IF userCanCreate THEN "Copy"
  ELSE "Read"

\* C16 as claimed: an embedded Power BI report has the permissions the two
\* user flags stand for: All, ReadWrite (edit only), Copy (create only) or
\* Read (neither)
C16_PermissionsByFlags ==
  artifact.kind = "report" =>
    artifact.permissions =
      PermissionsFor(embeddingData.userCanEdit, embeddingData.userCanCreate)

\* C17: the stored token and expiration come from the same GetEmbedToken
\* response (a token is identified by the expiry it was minted with) or are
\* both null, embedTokenAcquired holds only with both stored, and once true it
\* stays true
C17_TokenState ==
  /\ [](\/ embedToken = NullToken /\ embedTokenExpiration = NullExpiration
        \/ embedToken # NullToken /\ embedTokenExpiration = embedToken)
  /\ [](embedTokenAcquired =>
          embedToken # NullToken /\ embedTokenExpiration # NullExpiration)
  /\ [][embedTokenAcquired => embedTokenAcquired']_vars

\* C17 witness: a refresh replaced the first token by one with another expiry
\* after the user signed out
C17_Witness ==
  /\ lastEvent.name = "TokenResponse"
  /\ lastEvent.of # "mount"
  /\ embedTokenAcquired
  /\ ~isAuthenticated
  /\ embedToken = embedTokenExpiration
  /\ monitored.exp = embedTokenExpiration

====
